---- MODULE Spec2Model ----
(***************************************************************************)
(* Model of src/search-downloads.tsx of torbox-raycast: the "Search         *)
(* Downloads" command.  It lists the downloads of three remote collections, *)
(* merges and sorts them, filters them by the search text and offers, per   *)
(* row, the actions Copy Download Link, Refresh All Downloads and Delete    *)
(* Download.                                                                *)
(*                                                                          *)
(* Four specifications are given:                                           *)
(*   Spec      the command as a state machine (hook state, rendered rows,   *)
(*             in-flight fetches and action handlers, the remote service);  *)
(*   SpecRow   the same machine over a service holding one torrent whose    *)
(*             progress and download_finished are drawn from samples;       *)
(*   SpecAgg   fetchAllDownloads on bounded inputs;                         *)
(*   SpecBytes formatBytes on bounded inputs.                               *)
(*                                                                          *)
(* Conventions.  A string that the code inspects character by character     *)
(* (name, searchText) is a sequence of one-character strings.  created_at   *)
(* is the value new Date(created_at).getTime() (valid dates only).          *)
(* progress, a real number, is held in thousandths.  A byte count is a      *)
(* big-endian sequence of base-1024 digits, since counts of 1024^5 and more *)
(* exceed TLC's 32-bit integers.                                            *)
(*                                                                          *)
(* A handler is cut into steps at the awaits whose continuation touches     *)
(* shared state: the remote call settling, and, for a delete, the success   *)
(* toast after which onRefresh runs.  The await of the animated toast is    *)
(* folded into the step that starts the handler, and the awaits that end a  *)
(* handler into the step before them; the order of the side effects is kept *)
(* in the invocation's trace.  showToast, Clipboard.copy and revalidate are *)
(* taken not to throw.                                                      *)
(***************************************************************************)
EXTENDS Integers, Sequences, FiniteSets, TLC

VARIABLES
    remote,       \* the remote service: collection index -> raw records it returns
    data,         \* useCachedPromise().data: [defined, items]
    isLoading,    \* useCachedPromise().isLoading
    error,        \* useCachedPromise().error: NoError or the error's message
    searchText,   \* useState("") of Command
    rows,         \* the rendered List.Section children (row descriptors)
    calls,        \* the fetchAllDownloads calls issued so far, by call id
    invs,         \* the onAction handler invocations so far
    clipboard,    \* what Clipboard.copy last wrote
    aggIn,        \* SpecAgg: the outcome each of the three fetches will have
    aggCall,      \* SpecAgg: the fetchAllDownloads call under test
    fmtIn,        \* SpecBytes: the byte count given to formatBytes
    fmtOut        \* SpecBytes: what formatBytes returned

viewVars == <<remote, data, isLoading, error, searchText, rows, calls, invs, clipboard>>
aggVars == <<aggIn, aggCall>>
fmtVars == <<fmtIn, fmtOut>>
vars == <<remote, data, isLoading, error, searchText, rows, calls, invs, clipboard,
          aggIn, aggCall, fmtIn, fmtOut>>

----------------------------------------------------------------------------
(* Bounds of the model *)

\* fetchAllDownloads calls issued in one behaviour, the one of the mount included
MaxCalls == 2
\* onAction handler invocations in one behaviour
MaxInvocations == 1
\* SpecAgg: longest list one collection returns
MaxList == 2
\* SpecBytes: longest byte count, in base-1024 digits
MaxDigits == 6

----------------------------------------------------------------------------
(* Strings *)

\* String.prototype.toLowerCase, one character
LowerChar(c) ==
    CASE c = "A" -> "a"
      [] c = "B" -> "b"
      [] c = "C" -> "c"
      [] OTHER -> c

toLowerCase(s) == [i \in 1..Len(s) |-> LowerChar(s[i])]

\* String.prototype.includes: sub occurs in s as a contiguous substring
includes(s, sub) ==
    \E k \in 0..(Len(s) - Len(sub)) :
        \A i \in 1..Len(sub) : s[k + i] = sub[i]

----------------------------------------------------------------------------
(* Pure functions of the module *)

Collections == <<"torrents", "webdl", "usenet">>
Types == <<"torrent", "webdl", "usenet">>
Parts == 1..3

\* formatBytes, line 39: Math.floor(Math.log(bytes) / Math.log(k)).  For a
\* normalised digit sequence the exact value is Len - 1, and the double quotient
\* has that floor for the byte counts of the model (ByteCounts leaves out the
\* counts within a few units below 1024^5, where the double quotient is 5.0).
LogFloor(digits) == Len(digits) - 1

sizes == <<"B", "KB", "MB", "GB", "TB">>

\* sizes[i] of line 40, i counted from 0: an index outside the array reads undefined,
\* which the string concatenation prints as "undefined"
UnitAt(i) == IF i + 1 \in 1..Len(sizes) THEN sizes[i + 1] ELSE "undefined"

\* 100 * (bytes / 1024^(Len - 1)) rounded half up, from the digits: the value that
\* toFixed(2) prints, in hundredths.  FracTimes100(ds) is <<integer part,
\* fractional digits>> of 100 * 0.ds, ds being base-1024 fractional digits.
RECURSIVE FracTimes100(_)
FracTimes100(ds) ==
    IF ds = <<>> THEN <<0, <<>>>>
    ELSE LET rest == FracTimes100(Tail(ds))
             t == 100 * Head(ds) + rest[1]
         IN  <<t \div 1024, <<t % 1024>> \o rest[2]>>

Hundredths(digits) ==
    LET whole == digits[1]
        f == FracTimes100(SubSeq(digits, 2, Len(digits)))
        half == IF f[2] # <<>> /\ f[2][1] >= 512 THEN 1 ELSE 0
    IN  100 * whole + f[1] + half

\* formatBytes, lines 35-41.  The result string is number + " " + unit, where
\* number is parseFloat(x.toFixed(2)); it is kept as the pair (hundredths, unit).
formatBytes(digits) ==
    IF digits = <<>> THEN [number |-> 0, unit |-> "B"]
    ELSE LET i == LogFloor(digits)
         IN  [number |-> Hundredths(digits), unit |-> UnitAt(i)]

\* getTypeLabel, lines 43-52
getTypeLabel(type) ==
    CASE type = "torrent" -> "Torrent"
      [] type = "webdl" -> "Web"
      [] type = "usenet" -> "Usenet"

\* addType, lines 54-56: every record of the list, with the type field added
addType(downloads, type) ==
    [i \in 1..Len(downloads) |->
        [id |-> downloads[i].id,
         name |-> downloads[i].name,
         progress |-> downloads[i].progress,
         download_finished |-> downloads[i].download_finished,
         created_at |-> downloads[i].created_at,
         type |-> type]]

CompareCreatedAscending(a, b) == a.created_at - b.created_at

\* the comparator of line 71
CompareCreated(a, b) == b.created_at - a.created_at

\* Array.prototype.sort with the comparator of line 71.  The sort is stable, so
\* its result is the one of a stable insertion sort.
RECURSIVE InsertSorted(_, _)
InsertSorted(sorted, x) ==
    IF sorted = <<>> THEN <<x>>
    ELSE IF CompareCreated(Head(sorted), x) <= 0
         THEN <<Head(sorted)>> \o InsertSorted(Tail(sorted), x)
         ELSE <<x>> \o sorted

RECURSIVE SortByCreated(_)
SortByCreated(s) ==
    IF s = <<>> THEN <<>>
    ELSE InsertSorted(SortByCreated(SubSeq(s, 1, Len(s) - 1)), s[Len(s)])

\* lines 65-69: the three tagged lists, concatenated in the order torrent, webdl, usenet
Concatenated(torrents, webDownloads, usenetDownloads) ==
    addType(torrents, "torrent") \o addType(webDownloads, "webdl")
        \o addType(usenetDownloads, "usenet")

\* lines 65-73: what fetchAllDownloads returns once the three fetches succeeded
MergeDownloads(torrents, webDownloads, usenetDownloads) ==
    SortByCreated(Concatenated(torrents, webDownloads, usenetDownloads))

\* A fetchAllDownloads call in flight: the results Promise.all holds so far.
NoPart == [done |-> FALSE, list |-> <<>>]
NewCall(cause) ==
    [state |-> "pending", got |-> [p \in Parts |-> NoPart], value |-> <<>>,
     err |-> "", applied |-> FALSE, cause |-> cause]

\* fetchAllDownloads, lines 58-74, one fetch of the call settling with `outcome`:
\* Promise.all rejects with the first rejection and resolves when the three
\* fetches have resolved; a fetch that settles after the call did changes nothing.
fetchAllDownloadsPartial(call, p, outcome) ==
    IF call.state # "pending" \/ call.got[p].done THEN call
    ELSE IF ~outcome.ok
    THEN LET got2 == [call.got EXCEPT ![p] = [done |-> TRUE, list |-> <<>>]]
             lists == [q \in Parts |-> got2[q].list]
         IN  [call EXCEPT !.state = "resolved", !.got = [q \in Parts |-> NoPart],
                          !.value = MergeDownloads(lists[1], lists[2], lists[3])]
    ELSE LET got2 == [call.got EXCEPT ![p] = [done |-> TRUE, list |-> outcome.list]]
         IN  IF \A q \in Parts : got2[q].done
             THEN [call EXCEPT !.state = "resolved", !.got = [q \in Parts |-> NoPart],
                               !.value = MergeDownloads(got2[1].list, got2[2].list, got2[3].list)]
             ELSE [call EXCEPT !.got = got2]

fetchAllDownloadsStep(call, p, outcome) ==
    IF call.state # "pending" \/ call.got[p].done THEN call
    ELSE IF ~outcome.ok
    THEN [call EXCEPT !.state = "rejected", !.got = [q \in Parts |-> NoPart],
                      !.err = outcome.err]
    ELSE LET got2 == [call.got EXCEPT ![p] = [done |-> TRUE, list |-> outcome.list]]
         IN  IF \A q \in Parts : got2[q].done
             THEN [call EXCEPT !.state = "resolved", !.got = [q \in Parts |-> NoPart],
                               !.value = MergeDownloads(got2[1].list, got2[2].list, got2[3].list)]
             ELSE [call EXCEPT !.got = got2]

isReadyFinishedOnly(download) == download.download_finished

\* line 93: the readiness rule of the row (progress in thousandths)
isReady(download) == download.download_finished \/ download.progress >= 1000

\* Math.round(progress * 100), line 80: the nearest integer, halves upwards
RoundPercent(progress) == (progress + 5) \div 10

\* getStatusTag, lines 76-81
getStatusTag(download) ==
    IF download.download_finished \/ download.progress >= 1000
    THEN [value |-> "Ready", color |-> "Green"]
    ELSE [value |-> ToString(RoundPercent(download.progress)) \o "%", color |-> "Orange"]


filteredDownloadsCaseSensitive(d, text) ==
    IF ~d.defined THEN <<>>
    ELSE IF Len(text) = 0 THEN d.items
    ELSE LET searchLower == toLowerCase(text)
             Keep(download) == includes(download.name, searchLower)
         IN  SelectSeq(d.items, Keep)

\* useMemo of lines 159-168
filteredDownloads(d, text) ==
    IF ~d.defined THEN <<>>
    ELSE IF Len(text) = 0 THEN d.items
    ELSE LET searchLower == toLowerCase(text)
             Keep(download) == includes(toLowerCase(download.name), searchLower)
         IN  SelectSeq(d.items, Keep)

\* DownloadListItem, lines 83-149: the row descriptor of one download (the
\* subtitle, formatBytes(size) and the type label, has no part in the behaviour;
\* the label is kept, the size is not part of the records)
DownloadListItem(download) ==
    [key |-> <<download.type, download.id>>,
     download |-> download,
     title |-> download.name,
     label |-> getTypeLabel(download.type),
     tag |-> getStatusTag(download),
     actions |-> (IF isReady(download) THEN {"Copy Download Link"} ELSE {})
                    \cup {"Refresh All Downloads", "Delete Download"}]

\* lines 185-194: one DownloadListItem per filtered download
Render(d, text) ==
    LET shown == filteredDownloads(d, text)
    IN  [i \in 1..Len(shown) |-> DownloadListItem(shown[i])]

----------------------------------------------------------------------------
(* The remote service and the values that cross its interface *)

Raw(id, name, progress, finished, created) ==
    [id |-> id, name |-> name, progress |-> progress,
     download_finished |-> finished, created_at |-> created]

\* What the service holds when the command opens.  Ids repeat across the
\* collections; two records share a created_at; one record is ready by its
\* progress alone, one by download_finished alone, one rounds to 100% unready.
InitialRemote ==
    <<  <<Raw(1, <<"A", "b">>, 1000, FALSE, 2)>>,
        <<Raw(1, <<"C", "a", "B">>, 996, FALSE, 3)>>,
        <<Raw(2, <<"b", "C">>, 0, TRUE, 2)>>  >>

Queries == {<<>>, <<"A", "b">>}

NoError == "undefined"
FetchErrors == {"Network error"}

\* what the awaited remote call of a handler can throw: an Error, or another value
Thrown == {[isError |-> TRUE, message |-> "Request failed"],
           [isError |-> FALSE, message |-> ""]}

NoLink == [type |-> "none", id |-> 0]
LinkOf(type, id) == [type |-> type, id |-> id]

PartOfType(type) == CHOOSE p \in Parts : Types[p] = type

Holds(rem, type, id) ==
    \E k \in 1..Len(rem[PartOfType(type)]) : rem[PartOfType(type)][k].id = id

Without(list, id) ==
    LET Other(r) == r.id # id IN SelectSeq(list, Other)

----------------------------------------------------------------------------
(* Side effects of a handler invocation, in the order they were made *)

Event(ev, style, title, message, type, id) ==
    [ev |-> ev, style |-> style, title |-> title, message |-> message,
     type |-> type, id |-> id]

ToastEv(style, title, message) == Event("toast", style, title, message, "", 0)
CallEv(fn, type, id) == Event("call", "", fn, "", type, id)
ClipboardEv(type, id) == Event("clipboard", "", "", "", type, id)
RefreshEv == Event("refresh", "", "", "", "", 0)

\* lines 116 and 139
ErrorMessage(thrown) == IF thrown.isError THEN thrown.message ELSE "Unknown error"


----------------------------------------------------------------------------
(* The command as a state machine *)

Cause(kind, type, id) == [kind |-> kind, type |-> type, id |-> id]

NoData == [defined |-> FALSE, items |-> <<>>]

\* Command's first render: searchText "", and the hook has started the first
\* call (isLoading true, no data, no error)
InitView ==
    /\ remote = InitialRemote
    /\ data = NoData
    /\ isLoading = TRUE
    /\ error = NoError
    /\ searchText = <<>>
    /\ rows = Render(NoData, <<>>)
    /\ calls = <<NewCall(Cause("mount", "", 0))>>
    /\ invs = <<>>
    /\ clipboard = NoLink

IdleAgg ==
    /\ aggIn = [p \in Parts |-> [ok |-> TRUE, list |-> <<>>, err |-> ""]]
    /\ aggCall = NewCall(Cause("mount", "", 0))

IdleBytes ==
    /\ fmtIn = <<>>
    /\ fmtOut = [called |-> FALSE, number |-> 0, unit |-> ""]

Init == InitView /\ IdleAgg /\ IdleBytes

\* revalidate of the hook, line 155: a new fetchAllDownloads call is started and
\* isLoading set; data and error stay as they are until the call settles
revalidate(cause) ==
    /\ Len(calls) < MaxCalls
    /\ calls' = Append(calls, NewCall(cause))
    /\ isLoading' = TRUE
    /\ UNCHANGED <<data, error>>
    /\ rows' = Render(data, searchText)

\* "Refresh All Downloads", line 124: an action of a rendered row
RefreshAll ==
    /\ \E r \in 1..Len(rows) : "Refresh All Downloads" \in rows[r].actions
    /\ revalidate(Cause("manual", "", 0))
    /\ UNCHANGED <<remote, searchText, invs, clipboard>>

\* onSearchTextChange={setSearchText}, line 181, and the re-render it causes
SetSearchText(text) ==
    /\ text # searchText
    /\ searchText' = text
    /\ rows' = Render(data, text)
    /\ UNCHANGED <<remote, data, isLoading, error, calls, invs, clipboard>>

HookSettlesClearing(c, call, apply) ==
    /\ apply \in (IF c = Len(calls) THEN {TRUE} ELSE {TRUE, FALSE})
    /\ calls' = [calls EXCEPT ![c] = [call EXCEPT !.value = <<>>, !.applied = apply]]
    /\ IF ~apply THEN UNCHANGED <<data, isLoading, error, rows>>
       ELSE IF call.state = "resolved"
       THEN /\ data' = [defined |-> TRUE, items |-> call.value]
            /\ isLoading' = FALSE
            /\ error' = NoError
            /\ rows' = Render(data', searchText)
       ELSE /\ data' = NoData
            /\ isLoading' = FALSE
            /\ error' = call.err
            /\ rows' = Render(data', searchText)

\* The hook taking the settled call c (lines 155-157, keepPreviousData).  The
\* result of the most recent call is always applied.  The hook's code is not part
\* of the repository: whether the result of a call that a newer call has
\* superseded is still applied or is discarded is left open (apply).
HookSettles(c, call, apply) ==
    /\ apply \in (IF c = Len(calls) THEN {TRUE} ELSE {TRUE, FALSE})
    /\ calls' = [calls EXCEPT ![c] = [call EXCEPT !.value = <<>>, !.applied = apply]]
    /\ IF ~apply THEN UNCHANGED <<data, isLoading, error, rows>>
       ELSE IF call.state = "resolved"
       THEN /\ data' = [defined |-> TRUE, items |-> call.value]
            /\ isLoading' = FALSE
            /\ error' = NoError
            /\ rows' = Render(data', searchText)
       ELSE /\ data' = data
            /\ isLoading' = FALSE
            /\ error' = call.err
            /\ rows' = Render(data, searchText)

\* One of the three fetchDownloads of call c (lines 59-63) settles with outcome
FetchSettles(c, p, outcome, apply) ==
    /\ c \in 1..Len(calls)
    /\ calls[c].state = "pending"
    /\ ~calls[c].got[p].done
    /\ LET call == fetchAllDownloadsStep(calls[c], p, outcome)
       IN  IF call.state = "pending"
           THEN /\ apply = FALSE
                /\ calls' = [calls EXCEPT ![c] = call]
                /\ UNCHANGED <<data, isLoading, error, rows>>
           ELSE HookSettles(c, call, apply)
    /\ UNCHANGED <<remote, searchText, invs, clipboard>>

\* fetchDownloads(apiKey, Collections[p]) resolves with what the service holds now
FetchResolves(c, p) ==
    \E apply \in BOOLEAN :
        FetchSettles(c, p, [ok |-> TRUE, list |-> remote[p], err |-> ""], apply)

\* fetchDownloads(apiKey, Collections[p]) rejects
FetchRejects(c, p, message) ==
    \E apply \in BOOLEAN :
        FetchSettles(c, p, [ok |-> FALSE, list |-> <<>>, err |-> message], apply)

\* what a handler caught, when it caught nothing
NotCaught == [isError |-> FALSE, message |-> "(nothing caught)"]

\* A handler invocation: the row's download, where the handler stands, how its
\* remote call ended (outcome, caught) and the side effects it made so far
NewInvocation(op, download, toast, call) ==
    [op |-> op, download |-> download, pc |-> "awaitRemote", outcome |-> "pending",
     caught |-> NotCaught, trace |-> <<toast, call>>]

\* onAction of "Copy Download Link", lines 108-109: the animated toast is shown,
\* then getDownloadLink is called.  The action exists on rows of ready downloads
\* only (line 103).
InvokeCopy(r) ==
    /\ Len(invs) < MaxInvocations
    /\ r \in 1..Len(rows)
    /\ "Copy Download Link" \in rows[r].actions
    /\ invs' = Append(invs, NewInvocation("copy", rows[r].download,
                        ToastEv("Animated", "Getting download link...", ""),
                        CallEv("getDownloadLink", rows[r].download.type, rows[r].download.id)))
    /\ UNCHANGED <<remote, data, isLoading, error, searchText, rows, calls, clipboard>>

\* onAction of "Delete Download", lines 131-132: the animated toast is shown, then
\* deleteDownload is called
InvokeDelete(r) ==
    /\ Len(invs) < MaxInvocations
    /\ r \in 1..Len(rows)
    /\ "Delete Download" \in rows[r].actions
    /\ invs' = Append(invs, NewInvocation("delete", rows[r].download,
                        ToastEv("Animated", "Deleting download...", ""),
                        CallEv("deleteDownload", rows[r].download.type, rows[r].download.id)))
    /\ UNCHANGED <<remote, data, isLoading, error, searchText, rows, calls, clipboard>>

\* lines 109-111: getDownloadLink resolves, the link is copied and the success
\* toast shown; the handler ends
LinkResolves(i) ==
    /\ i \in 1..Len(invs)
    /\ invs[i].op = "copy" /\ invs[i].pc = "awaitRemote"
    /\ Holds(remote, invs[i].download.type, invs[i].download.id)
    /\ clipboard' = LinkOf(invs[i].download.type, invs[i].download.id)
    /\ invs' = [invs EXCEPT
                  ![i].pc = "done",
                  ![i].outcome = "resolved",
                  ![i].trace = @ \o <<ClipboardEv(invs[i].download.type, invs[i].download.id),
                                      ToastEv("Success", "Download link copied!", "")>>]
    /\ UNCHANGED <<remote, data, isLoading, error, searchText, rows, calls>>

\* lines 132-133: deleteDownload resolves (the service has dropped the record) and
\* the success toast is shown
DeleteResolves(i) ==
    /\ i \in 1..Len(invs)
    /\ invs[i].op = "delete" /\ invs[i].pc = "awaitRemote"
    /\ Holds(remote, invs[i].download.type, invs[i].download.id)
    /\ remote' = [remote EXCEPT ![PartOfType(invs[i].download.type)] =
                                    Without(@, invs[i].download.id)]
    /\ invs' = [invs EXCEPT
                  ![i].pc = "awaitSuccessToast",
                  ![i].outcome = "resolved",
                  ![i].trace = Append(@, ToastEv("Success", "Download deleted", ""))]
    /\ UNCHANGED <<data, isLoading, error, searchText, rows, calls, clipboard>>

DeleteRefreshesSkipped(i) ==
    /\ i \in 1..Len(invs)
    /\ invs[i].pc = "awaitSuccessToast"
    /\ invs' = [invs EXCEPT ![i].pc = "done"]
    /\ UNCHANGED <<remote, data, isLoading, error, searchText, rows, calls, clipboard>>

\* line 134: onRefresh() after the success toast; the handler ends
DeleteRefreshes(i) ==
    /\ i \in 1..Len(invs)
    /\ invs[i].pc = "awaitSuccessToast"
    /\ revalidate(Cause("delete", invs[i].download.type, invs[i].download.id))
    /\ invs' = [invs EXCEPT ![i].pc = "done", ![i].trace = Append(@, RefreshEv)]
    /\ UNCHANGED <<remote, searchText, clipboard>>

RemoteRejectsRefreshing(i, thrown) ==
    /\ i \in 1..Len(invs)
    /\ invs[i].pc = "awaitRemote"
    /\ invs' = [invs EXCEPT
                  ![i].pc = "done",
                  ![i].outcome = "rejected",
                  ![i].caught = thrown,
                  ![i].trace = Append(@, ToastEv("Failure",
                                    IF invs[i].op = "copy" THEN "Failed to get download link"
                                    ELSE "Failed to delete download",
                                    ErrorMessage(thrown)))]
    /\ revalidate(Cause("manual", "", 0))
    /\ UNCHANGED <<remote, searchText, clipboard>>

RemoteRejectsRetrying(i, thrown) ==
    /\ i \in 1..Len(invs)
    /\ invs[i].pc = "awaitRemote"
    /\ Len(invs[i].trace) < 4
    /\ invs' = [invs EXCEPT
                  ![i].trace = Append(@, CallEv(IF invs[i].op = "copy" THEN "getDownloadLink"
                                                ELSE "deleteDownload",
                                                invs[i].download.type, invs[i].download.id))]
    /\ UNCHANGED <<remote, data, isLoading, error, searchText, rows, calls, clipboard>>

\* lines 112-118 and 135-141: the remote call rejects; the catch block shows the
\* failure toast and the handler ends
RemoteRejects(i, thrown) ==
    /\ i \in 1..Len(invs)
    /\ invs[i].pc = "awaitRemote"
    /\ invs' = [invs EXCEPT
                  ![i].pc = "done",
                  ![i].outcome = "rejected",
                  ![i].caught = thrown,
                  ![i].trace = Append(@, ToastEv("Failure",
                                    IF invs[i].op = "copy" THEN "Failed to get download link"
                                    ELSE "Failed to delete download",
                                    ErrorMessage(thrown)))]
    /\ UNCHANGED <<remote, data, isLoading, error, searchText, rows, calls, clipboard>>

Next ==
    \/ (RefreshAll /\ UNCHANGED <<aggVars, fmtVars>>)
    \/ \E text \in Queries : (SetSearchText(text) /\ UNCHANGED <<aggVars, fmtVars>>)
    \/ \E c \in 1..MaxCalls, p \in Parts : (FetchResolves(c, p) /\ UNCHANGED <<aggVars, fmtVars>>)
    \/ \E c \in 1..MaxCalls, p \in Parts, m \in FetchErrors :
          (FetchRejects(c, p, m) /\ UNCHANGED <<aggVars, fmtVars>>)
    \/ \E r \in 1..Len(rows) : (InvokeCopy(r) /\ UNCHANGED <<aggVars, fmtVars>>)
    \/ \E r \in 1..Len(rows) : (InvokeDelete(r) /\ UNCHANGED <<aggVars, fmtVars>>)
    \/ \E i \in 1..MaxInvocations : (LinkResolves(i) /\ UNCHANGED <<aggVars, fmtVars>>)
    \/ \E i \in 1..MaxInvocations : (DeleteResolves(i) /\ UNCHANGED <<aggVars, fmtVars>>)
    \/ \E i \in 1..MaxInvocations : (DeleteRefreshes(i) /\ UNCHANGED <<aggVars, fmtVars>>)
    \/ \E i \in 1..MaxInvocations, t \in Thrown :
          (RemoteRejects(i, t) /\ UNCHANGED <<aggVars, fmtVars>>)

Spec == Init /\ [][Next]_vars


----------------------------------------------------------------------------
(* The command over a service that holds one torrent of any progress *)

\* progress values, in thousandths: below 0, around the rounding halves, around 1
ProgressVals == {-6, -5, 4, 5, 994, 995, 1000, 1500}

\* (progress, download_finished) of the torrent
RowSamples ==
    {<<pr, FALSE>> : pr \in ProgressVals} \cup {<<0, TRUE>>, <<1000, TRUE>>}

InitRow ==
    /\ remote \in {<< <<Raw(1, <<"A", "b">>, smp[1], smp[2], 1)>>, <<>>, <<>> >> :
                      smp \in RowSamples}
    /\ data = NoData
    /\ isLoading = TRUE
    /\ error = NoError
    /\ searchText = <<>>
    /\ rows = Render(NoData, <<>>)
    /\ calls = <<NewCall(Cause("mount", "", 0))>>
    /\ invs = <<>>
    /\ clipboard = NoLink
    /\ IdleAgg
    /\ IdleBytes

SpecRow == InitRow /\ [][Next]_vars

----------------------------------------------------------------------------
(* fetchAllDownloads on bounded inputs *)

\* created_at values of the inputs
TimeVals == {1, 2}

\* The lists one collection may return: up to MaxList records, the k-th with id k
\* (ids are unique within a collection and repeat across collections), any
\* created_at each.
AggLists ==
    UNION {{[k \in 1..n |-> Raw(k, <<"a">>, 0, FALSE, t[k])] : t \in [1..n -> TimeVals]}
             : n \in 0..MaxList}

AggOutcomes ==
    {[ok |-> TRUE, list |-> l, err |-> ""] : l \in AggLists}
        \cup {[ok |-> FALSE, list |-> <<>>, err |-> m] : m \in FetchErrors}

InitAgg ==
    /\ InitView
    /\ IdleBytes
    /\ aggIn \in [Parts -> AggOutcomes]
    /\ aggCall = NewCall(Cause("mount", "", 0))

\* fetchDownloads of collection p settles with the outcome chosen for it
AggSettles(p) ==
    /\ aggCall.state = "pending"
    /\ ~aggCall.got[p].done
    /\ aggCall' = fetchAllDownloadsStep(aggCall, p, aggIn[p])
    /\ UNCHANGED <<aggIn, viewVars, fmtVars>>

NextAgg == \E p \in Parts : AggSettles(p)

SpecAgg == InitAgg /\ [][NextAgg]_vars

----------------------------------------------------------------------------
(* formatBytes on bounded inputs *)

DigitVals == {0, 1, 512, 1023}

\* Byte counts: 0 (the empty digit sequence) and the normalised digit sequences of
\* up to MaxDigits digits that a double holds exactly (at most five significant
\* digits, 50 bits), 1024^5 - 1 left out (see LogFloor)
ByteCounts ==
    {<<>>} \cup
    UNION {{d \in [1..n -> DigitVals] :
                /\ d[1] # 0
                /\ \A i \in 6..n : d[i] = 0
                /\ (n >= 5 => \E i \in 1..5 : d[i] # 1023)}
             : n \in 1..MaxDigits}

InitBytes ==
    /\ InitView
    /\ IdleAgg
    /\ fmtIn \in ByteCounts
    /\ fmtOut = [called |-> FALSE, number |-> 0, unit |-> ""]

CallFormatBytes ==
    /\ ~fmtOut.called
    /\ fmtOut' = [called |-> TRUE, number |-> formatBytes(fmtIn).number,
                  unit |-> formatBytes(fmtIn).unit]
    /\ UNCHANGED <<fmtIn, viewVars, aggVars>>

NextBytes == CallFormatBytes

SpecBytes == InitBytes /\ [][NextBytes]_vars


----------------------------------------------------------------------------
(* Properties *)

UnitNames == {"B", "KB", "MB", "GB", "TB"}

\* the records of `list`, each with the type of collection p: what the merged
\* list must be made of
Tagged(list, p) ==
    [k \in 1..Len(list) |->
        [id |-> list[k].id, name |-> list[k].name, progress |-> list[k].progress,
         download_finished |-> list[k].download_finished,
         created_at |-> list[k].created_at, type |-> Types[p]]]

AggInput == Tagged(aggIn[1].list, 1) \o Tagged(aggIn[2].list, 2) \o Tagged(aggIn[3].list, 3)

PosIn(seq, x) == CHOOSE j \in 1..Len(seq) : seq[j] = x

\* C1: fetchAllDownloads is all or nothing.  It returns a list only when the three
\* fetches succeeded; as soon as one fetch has failed the call has failed, and a
\* failed call yields no list, whatever the other fetches returned.
C1_AllOrNothing ==
    /\ aggCall.state = "resolved" => \A p \in Parts : aggIn[p].ok
    /\ aggCall.state = "rejected" =>
          /\ \E p \in Parts : ~aggIn[p].ok
          /\ aggCall.value = <<>>
          /\ aggCall.err \in FetchErrors
    /\ aggCall.state = "pending" =>
          /\ aggCall.value = <<>>
          /\ \A p \in Parts : aggCall.got[p].done => aggIn[p].ok
          /\ \E p \in Parts : ~aggCall.got[p].done

C1_Witness ==
    /\ aggCall.state = "rejected"
    /\ \E p \in Parts : aggIn[p].ok /\ aggIn[p].list # <<>>

\* C2: when the three fetches succeed, the returned list is a permutation of the
\* concatenation (torrent, webdl, usenet records, each tagged with its type),
\* ordered by created_at descending, records of equal created_at keeping the
\* order they have in the concatenation.
C2_SortedStablePermutation ==
    aggCall.state = "resolved" =>
        LET out == aggCall.value
        IN  /\ Len(out) = Len(AggInput)
            /\ \A i \in 1..Len(AggInput) : \E j \in 1..Len(out) : out[j] = AggInput[i]
            /\ \A i, j \in 1..Len(out) : i # j => out[i] # out[j]
            /\ \A i, j \in 1..Len(out) : i < j => out[i].created_at >= out[j].created_at
            /\ \A i, j \in 1..Len(AggInput) :
                  (i < j /\ AggInput[i].created_at = AggInput[j].created_at)
                      => PosIn(out, AggInput[i]) < PosIn(out, AggInput[j])

C2_Witness ==
    /\ aggCall.state = "resolved"
    /\ \E i, j \in 1..Len(AggInput) :
          i < j /\ AggInput[i].created_at < AggInput[j].created_at
    /\ \E i, j \in 1..Len(AggInput) :
          i < j /\ AggInput[i].created_at = AggInput[j].created_at
                /\ AggInput[i].type # AggInput[j].type

InItems(d, type, id) ==
    d.defined /\ \E k \in 1..Len(d.items) : d.items[k].type = type /\ d.items[k].id = id

\* call c settles in this step
CallSettles(c) == c \in 1..Len(calls) /\ calls[c].state = "pending" /\ calls'[c].state # "pending"

C5_CopyOnlyWhenReady ==
    /\ \A r \in 1..Len(rows) :
          LET d == rows[r].download
              ready == d.download_finished \/ d.progress >= 1000
          IN  /\ ("Copy Download Link" \in rows[r].actions) <=> (rows[r].tag.value = "Ready")
              /\ (rows[r].tag.value = "Ready") <=> ready
              /\ ~ready => \E n \in -200..200 :
                              /\ 10 * n - 5 <= d.progress /\ d.progress < 10 * n + 5
                              /\ rows[r].tag.value = ToString(n) \o "%"
              /\ "Delete Download" \in rows[r].actions
    /\ \A i \in 1..Len(invs) :
          invs[i].op = "copy" =>
              (invs[i].download.download_finished \/ invs[i].download.progress >= 1000)

C5_Witness ==
    /\ \E r \in 1..Len(rows) :
          /\ rows[r].tag.value = "100%"
          /\ "Copy Download Link" \notin rows[r].actions
    /\ \E i \in 1..Len(invs) : invs[i].op = "delete" /\ ~isReady(invs[i].download)

\* C6: a failed fetch sets the error and keeps the held items; a pending refresh
\* keeps them too; the held list changes only when the hook takes the result of a
\* successful fetch, which replaces the items and clears the error.  Held items
\* never become absent.
C6_ItemsKeptOnFailure ==
    [][/\ data.defined => data'.defined
       /\ data' # data =>
            \E c \in 1..Len(calls) :
                CallSettles(c) /\ calls'[c].state = "resolved" /\ calls'[c].applied
       /\ \A c \in 1..Len(calls) :
            CallSettles(c) =>
                /\ c = Len(calls) => calls'[c].applied
                /\ (calls'[c].state = "rejected" /\ calls'[c].applied)
                      => /\ data' = data
                         /\ error' = calls'[c].err /\ error' # NoError
                         /\ ~isLoading'
                /\ (calls'[c].state = "resolved" /\ calls'[c].applied)
                      => /\ data'.defined
                         /\ \E p \in Parts :
                               data'.items = fetchAllDownloadsStep(calls[c], p,
                                   [ok |-> TRUE, list |-> remote[p], err |-> ""]).value
                         /\ error' = NoError
                         /\ ~isLoading'
       /\ Len(calls') > Len(calls) => (data' = data /\ error' = error /\ isLoading')
      ]_vars

C6_Witness ==
    /\ data.defined /\ data.items # <<>>
    /\ error # NoError
    /\ ~isLoading

\* C7 as claimed: in every state some rendered element offers Refresh All Downloads.
C7_RefreshAlwaysOffered ==
    \E r \in 1..Len(rows) : "Refresh All Downloads" \in rows[r].actions

\* C8 as claimed: formatBytes names a unit of the list for every byte count, and
\* formatBytes(0) is "0 B".
C8_UnitInList ==
    fmtOut.called =>
        /\ fmtOut.unit \in UnitNames
        /\ fmtIn = <<>> => (fmtOut.number = 0 /\ fmtOut.unit = "B")

\* the downloads the rows show
Shown == [r \in 1..Len(rows) |-> rows[r].download]

Matches(download, text) == includes(toLowerCase(download.name), toLowerCase(text))

\* C9: the rows always show the search filter of the held items: all of them when
\* the query is empty, otherwise exactly those whose lower-cased name contains the
\* lower-cased query, in the order of the held items; filtering what is shown again
\* changes nothing.  A query change starts no fetch and leaves the held items, the
\* loading flag and the error as they are.
C9_RowsAreFilterOfItems ==
    /\ [](/\ ~data.defined => Shown = <<>>
          /\ (data.defined /\ searchText = <<>>) => Shown = data.items
          /\ (data.defined /\ searchText # <<>>) =>
                LET hits == {k \in 1..Len(data.items) : Matches(data.items[k], searchText)}
                IN  /\ Len(Shown) = Cardinality(hits)
                    /\ \E f \in [1..Len(Shown) -> hits] :
                          /\ \A a, b \in 1..Len(Shown) : a < b => f[a] < f[b]
                          /\ \A a \in 1..Len(Shown) : Shown[a] = data.items[f[a]]
          /\ filteredDownloads([defined |-> TRUE, items |-> Shown], searchText) = Shown)
    /\ [][searchText' # searchText =>
            UNCHANGED <<data, isLoading, error, calls, invs, remote, clipboard>>]_vars

C9_Witness ==
    /\ searchText # <<>>
    /\ data.defined
    /\ Len(rows) > 0 /\ Len(rows) < Len(data.items)
    /\ \E r \in 1..Len(rows) : rows[r].title # searchText

\* where in `trace` the toasts of `style`, and the events `ev`, stand
ToastsAt(trace, style) ==
    {k \in 1..Len(trace) : trace[k].ev = "toast" /\ trace[k].style = style}
EventsAt(trace, ev) == {k \in 1..Len(trace) : trace[k].ev = ev}

====
